---- MODULE Spec2Model ----
(***************************************************************************)
(* TeachMeFinance (src/chatbot.py): the Ollama chat bridge                 *)
(* chat_completion_ollama, the interactive REPL `chat` and the single-shot *)
(* command `ask`.                                                          *)
(*                                                                         *)
(* Text is a sequence of one-character strings, so that str.strip() and    *)
(* str.lower() are computed and not assumed.  The fixed system prompt is   *)
(* kept as a one-element sequence holding its opening words.               *)
(***************************************************************************)
EXTENDS Integers, Sequences, FiniteSets, TLC

VARIABLES mode, pc, history, raw, q, srv, ret, sent, calls, posts,
          console, outcomes, failedAt, turns, exitcode

vars == <<mode, pc, history, raw, q, srv, ret, sent, calls, posts,
          console, outcomes, failedAt, turns, exitcode>>

\* Number of non-terminal inputs one interactive session reads.
MaxTurns == 2

-----------------------------------------------------------------------------
\* Text helpers

s_message  == <<"m","e","s","s","a","g","e">>
s_content  == <<"c","o","n","t","e","n","t">>
s_response == <<"r","e","s","p","o","n","s","e">>
s_exit     == <<"e","x","i","t">>
s_quit     == <<"q","u","i","t">>
s_None     == <<"N","o","n","e">>

\* Characters str.strip() removes when called without arguments.
Whitespace == {" ", "\t", "\n"}

RECURSIVE lstrip(_)
lstrip(s) == IF s = << >> THEN s
             ELSE IF Head(s) \in Whitespace THEN lstrip(Tail(s)) ELSE s

RECURSIVE rstrip(_)
rstrip(s) == IF s = << >> THEN s
             ELSE IF s[Len(s)] \in Whitespace
                  THEN rstrip(SubSeq(s, 1, Len(s) - 1)) ELSE s

\* strip_left_only: a strip that forgets the trailing side.
strip_left_only(s) == lstrip(s)

\* str.strip()
strip(s) == rstrip(lstrip(s))

lower_char(c) ==
    CASE c = "E" -> "e" [] c = "X" -> "x" [] c = "I" -> "i" [] c = "T" -> "t"
      [] c = "Q" -> "q" [] c = "U" -> "u" [] c = "H" -> "h"
      [] OTHER -> c

\* lower_identity: a comparison that forgets to fold case.
lower_identity(s) == s

\* str.lower()
lower(s) == [i \in 1..Len(s) |-> lower_char(s[i])]

\* Python's `sub in s` for two strings.
Contains(sub, s) ==
    \E i \in 0..(Len(s) - Len(sub)) : SubSeq(s, i + 1, i + Len(sub)) = sub

-----------------------------------------------------------------------------
\* Parsed JSON values, as resp.json() yields them.
\* A scalar is [t, s]: t its JSON type, s its text (a string's characters, a
\* number's digits).  t = "absent" stands for a key that is not there.

NoScalar == [t |-> "absent", s |-> << >>]
JStr(s)  == [t |-> "str",  s |-> s]
JNum(s)  == [t |-> "num",  s |-> s]
JNull    == [t |-> "null", s |-> << >>]

\* The value under "message": t its JSON type, s its characters when a string,
\* items its elements when a list, content the value under "content" when an
\* object.
MsgAbsent    == [t |-> "absent", s |-> << >>, items |-> << >>, content |-> NoScalar]
MsgObj(c)    == [t |-> "obj",  s |-> << >>, items |-> << >>, content |-> c]
MsgStr(s)    == [t |-> "str",  s |-> s,     items |-> << >>, content |-> NoScalar]
MsgList(l)   == [t |-> "list", s |-> << >>, items |-> l,     content |-> NoScalar]
MsgNull      == [t |-> "null", s |-> << >>, items |-> << >>, content |-> NoScalar]

\* The response body: t = "invalid" is a body that is not JSON; otherwise t is
\* the JSON type of the top-level value.
Obj(m, r)    == [t |-> "obj",  s |-> << >>, items |-> << >>, message |-> m, response |-> r]
TopList(l)   == [t |-> "list", s |-> << >>, items |-> l, message |-> MsgAbsent, response |-> NoScalar]
TopStr(s)    == [t |-> "str",  s |-> s, items |-> << >>, message |-> MsgAbsent, response |-> NoScalar]
TopNull      == [t |-> "null", s |-> << >>, items |-> << >>, message |-> MsgAbsent, response |-> NoScalar]
TopNum       == [t |-> "num",  s |-> <<"5">>, items |-> << >>, message |-> MsgAbsent, response |-> NoScalar]
NotJson      == [t |-> "invalid", s |-> << >>, items |-> << >>, message |-> MsgAbsent, response |-> NoScalar]

\* Python's str(v) of a scalar.
pystr(v) == IF v.t = "null" THEN s_None ELSE v.s

\* Python's `key in v`: "True", "False" or "TypeError" (v is not a container).
\* haskey says whether an object v holds the key.
py_in(key, v, haskey) ==
    CASE v.t = "obj"  -> IF haskey THEN "True" ELSE "False"
      [] v.t = "str"  -> IF Contains(key, v.s) THEN "True" ELSE "False"
      [] v.t = "list" -> IF \E i \in 1..Len(v.items) : v.items[i] = key
                         THEN "True" ELSE "False"
      [] OTHER        -> "TypeError"

-----------------------------------------------------------------------------
\* Messages and the request/response bridge

SYSTEM_PROMPT == <<"You are TeachMeFinance, a *financial education* assistant.">>

Message(role, content) == [role |-> role, content |-> content]

\* What a call of chat_completion_ollama yields: a returned string (st = "ok")
\* or a raised exception (st = "err") of class exc; a RuntimeError carries its
\* message msg and, for a failed request, the class of the underlying cause.
Ok(v) == [st |-> "ok", value |-> v, exc |-> "", msg |-> "", cause |-> ""]
Raise(exc, msg, cause) ==
    [st |-> "err", value |-> << >>, exc |-> exc, msg |-> msg, cause |-> cause]
NoRet == [st |-> "none", value |-> << >>, exc |-> "", msg |-> "", cause |-> ""]

\* What the server does with one POST: the request fails in transport
\* (transport names the requests exception) or a response with a status code
\* and a body arrives.
Response(transport, status, body) ==
    [transport |-> transport, status |-> status, body |-> body]
NoSrv == Response("none", 0, NotJson)

\* The JSON body posted.
payload(messages) == [messages |-> messages, stream |-> FALSE]

\* Response.raise_for_status(): HTTPError for a 4xx or 5xx status.
raise_for_status(status) == 400 <= status /\ status < 600

\* The "response" fallback and the final raise.
extract_response(data) ==
    IF py_in(s_response, data, data.response.t # "absent") = "True"
    THEN IF data.t # "obj"
         THEN Raise("TypeError", "", "")          \* data["response"] on a str or list
         ELSE Ok(strip(pystr(data.response)))
    ELSE Raise("RuntimeError", "Unexpected Ollama response schema", "")

\* From resp.json() to the return or the raise.
extract(data) ==
    IF data.t = "invalid" THEN Raise("JSONDecodeError", "", "")
    ELSE LET inMsg == py_in(s_message, data, data.message.t # "absent") IN
      IF inMsg = "TypeError" THEN Raise("TypeError", "", "")
      ELSE IF inMsg = "False" THEN extract_response(data)
      ELSE IF data.t # "obj" THEN Raise("TypeError", "", "")   \* data["message"]
      ELSE LET mv  == data.message
               inC == py_in(s_content, mv, mv.content.t # "absent") IN
        IF inC = "TypeError" THEN Raise("TypeError", "", "")
        ELSE IF inC = "False" THEN extract_response(data)
        ELSE IF mv.t # "obj" THEN Raise("TypeError", "", "")   \* mv["content"]
        ELSE IF mv.content.t # "str" THEN Raise("AttributeError", "", "")
        ELSE Ok(strip(mv.content.s))

\* The outcome of the call for what the server does.
outcome(server) ==
    IF server.transport # "ok"
    THEN Raise("RuntimeError", "Ollama request failed", server.transport)
    ELSE IF raise_for_status(server.status)
    THEN Raise("RuntimeError", "Ollama request failed", "HTTPError")
    ELSE extract(server.body)

\* chat_completion_retry: a bridge that posts a second time when the request
\* failed.
chat_completion_retry(messages, server) ==
    [result   |-> outcome(server),
     payload  |-> payload(messages),
     posts    |-> IF outcome(server).msg = "Ollama request failed" THEN 2 ELSE 1,
     messages |-> messages]

\* chat_completion_ollama: its result, the body it posts, the number of POSTs
\* it makes, and the caller's list as it is on return (Python passes the list
\* itself).
chat_completion_ollama(messages, server) ==
    [result   |-> outcome(server),
     payload  |-> payload(messages),
     posts    |-> 1,
     messages |-> messages]

-----------------------------------------------------------------------------
\* The inputs drawn: what the user types and what the server does.

s_X  == <<"X">>
s_Y  == <<"Y">>
s_hi == <<"h","i">>

\* Lines typed at the prompt (or given to `ask` as the question).
Inputs ==
    { s_exit, <<"E","X","I","T">>, s_quit, <<" "," ","Q","u","i","t"," ">>,
      <<"\t","e","x","i","t">>,
      s_hi, <<" ","h","i"," ">>, <<"H","i">>, << >>, <<" "," ">>,
      <<"e","x","i","t","s">> }

\* Bodies a response can carry.
Bodies ==
    { NotJson,
      Obj(MsgObj(JStr(<<" ","X"," ">>)), NoScalar),
      Obj(MsgObj(JStr(s_X)), JStr(s_Y)),
      Obj(MsgObj(JStr(<<" ","\n">>)), NoScalar),
      Obj(MsgAbsent, JStr(<<" ","Y","\n">>)),
      Obj(MsgAbsent, JNum(<<"5">>)),
      Obj(MsgAbsent, JNull),
      Obj(MsgObj(NoScalar), JStr(s_Y)),
      Obj(MsgObj(NoScalar), NoScalar),
      Obj(MsgAbsent, NoScalar),
      Obj(MsgNull, JStr(s_Y)),
      Obj(MsgObj(JNum(<<"5">>)), NoScalar),
      Obj(MsgObj(JNull), JStr(s_Y)),
      Obj(MsgStr(s_hi), JStr(s_Y)),
      Obj(MsgStr(s_content), NoScalar),
      Obj(MsgList(<<s_content>>), NoScalar),
      TopNull, TopNum, TopList(<< >>), TopList(<<s_message>>),
      TopStr(s_hi), TopStr(s_response) }

\* What the server can do with one POST.
Responses ==
    { Response("ConnectionError", 0, NotJson), Response("Timeout", 0, NotJson),
      Response("ok", 404, NotJson), Response("ok", 500, NotJson),
      Response("ok", 304, NotJson),
      Response("ok", 304, Obj(MsgObj(JStr(s_X)), NoScalar)) }
    \cup { Response("ok", 200, b) : b \in Bodies }

Modes == {"chat", "ask"}

-----------------------------------------------------------------------------
\* Console output

Banner      == [kind |-> "banner", text |-> << >>, exc |-> "", msg |-> "", cause |-> ""]
Answer(a)   == [kind |-> "answer", text |-> a, exc |-> "", msg |-> "", cause |-> ""]
ErrorLine(e) ==
    [kind |-> "error", text |-> << >>, exc |-> e.exc, msg |-> e.msg, cause |-> e.cause]

-----------------------------------------------------------------------------
\* State
\*   mode      which command runs
\*   pc        where the command is
\*   history   `history` of chat, `messages` of ask
\*   raw       the line last read by Prompt.ask
\*   q         the line after .strip()
\*   srv       what the server did with the POST of the call that just returned
\*   ret       what the last bridge call returned or raised
\*   sent      the body of the last POST
\*   calls     bridge calls made
\*   posts     POSTs made
\*   console   what was printed, in order
\*   outcomes  "ok" / "err" of each bridge call, in order
\*   failedAt  positions in history of the user messages whose call failed
\*   turns     non-terminal lines read
\*   exitcode  process exit status, -1 while running

Init ==
    /\ mode \in Modes
    /\ \E question \in Inputs :
         IF mode = "chat"
         THEN /\ history = <<Message("system", SYSTEM_PROMPT)>>
              /\ pc = "AwaitingInput"
              /\ console = <<Banner>>
              /\ q = << >>
         ELSE /\ history = <<Message("system", SYSTEM_PROMPT),
                             Message("user", question)>>
              /\ pc = "Sending"
              /\ console = << >>
              /\ q = question
    /\ raw = << >>
    /\ srv = NoSrv
    /\ ret = NoRet
    /\ sent = payload(<< >>)
    /\ calls = 0
    /\ posts = 0
    /\ outcomes = << >>
    /\ failedAt = {}
    /\ turns = 0
    /\ exitcode = -1

\* append_user_reseed: a loop that puts the system prompt in again on every turn.
append_user_reseed(h, text) ==
    Append(Append(h, Message("system", SYSTEM_PROMPT)), Message("user", text))

\* history.append({"role":"user","content": q})
append_user(h, text) == Append(h, Message("user", text))

\* q.lower() in {"exit", "quit"}
is_terminal(text) == lower(text) \in {s_exit, s_quit}

\* One pass of the loop head: read a line, strip it, leave on exit/quit,
\* otherwise append it as the user message.
ChatPrompt ==
    /\ mode = "chat" /\ pc = "AwaitingInput"
    /\ \E line \in Inputs :
         LET text == strip(line) IN
           /\ raw' = line
           /\ q' = text
           /\ IF is_terminal(text)
              THEN /\ pc' = "Ended"
                   /\ exitcode' = 0
                   /\ UNCHANGED <<history, turns>>
              ELSE /\ turns < MaxTurns
                   /\ history' = append_user(history, text)
                   /\ turns' = turns + 1
                   /\ pc' = "Sending"
                   /\ UNCHANGED exitcode
    /\ UNCHANGED <<mode, srv, ret, sent, calls, posts, console, outcomes, failedAt>>

\* The bridge call, shared by both commands.
Send(next) ==
    \E server \in Responses :
      LET r == chat_completion_ollama(history, server) IN
        /\ srv' = server
        /\ ret' = r.result
        /\ sent' = r.payload
        /\ posts' = posts + r.posts
        /\ calls' = calls + 1
        /\ history' = r.messages
        /\ outcomes' = Append(outcomes, r.result.st)
        /\ pc' = next
        /\ UNCHANGED <<mode, raw, q, console, failedAt, turns, exitcode>>

\* answer = chat_completion_ollama(model, history, temperature, max_tokens)
ChatSend == mode = "chat" /\ pc = "Sending" /\ Send("Returned")

\* ChatErrorAsAnswer: a handler that records the error text as the assistant's turn.
ChatErrorAsAnswer ==
    /\ mode = "chat" /\ pc = "Returned" /\ ret.st = "err"
    /\ console' = Append(console, ErrorLine(ret))
    /\ history' = Append(history, Message("assistant", << >>))
    /\ failedAt' = failedAt \cup {Len(history)}
    /\ srv' = NoSrv
    /\ pc' = "AwaitingInput"
    /\ UNCHANGED <<mode, raw, q, ret, sent, calls, posts, outcomes, turns, exitcode>>

\* ChatErrorSilent: a handler that continues without printing.
ChatErrorSilent ==
    /\ mode = "chat" /\ pc = "Returned" /\ ret.st = "err"
    /\ failedAt' = failedAt \cup {Len(history)}
    /\ srv' = NoSrv
    /\ pc' = "AwaitingInput"
    /\ UNCHANGED <<mode, history, raw, q, ret, sent, calls, posts, console,
                   outcomes, turns, exitcode>>

\* except Exception as e: print the error, continue.
ChatError ==
    /\ mode = "chat" /\ pc = "Returned" /\ ret.st = "err"
    /\ console' = Append(console, ErrorLine(ret))
    /\ failedAt' = failedAt \cup {Len(history)}
    /\ srv' = NoSrv
    /\ pc' = "AwaitingInput"
    /\ UNCHANGED <<mode, history, raw, q, ret, sent, calls, posts, outcomes,
                   turns, exitcode>>

\* history.append({"role":"assistant","content": answer})
ChatAppend ==
    /\ mode = "chat" /\ pc = "Returned" /\ ret.st = "ok"
    /\ history' = Append(history, Message("assistant", ret.value))
    /\ srv' = NoSrv
    /\ pc' = "Displaying"
    /\ UNCHANGED <<mode, raw, q, ret, sent, calls, posts, console, outcomes,
                   failedAt, turns, exitcode>>

\* console.print(Panel(answer, ...)), then back to the loop head.
ChatRender ==
    /\ mode = "chat" /\ pc = "Displaying"
    /\ console' = Append(console, Answer(ret.value))
    /\ pc' = "AwaitingInput"
    /\ UNCHANGED <<mode, history, raw, q, srv, ret, sent, calls, posts, outcomes,
                   failedAt, turns, exitcode>>

\* answer = chat_completion_ollama(model, messages, temperature, max_tokens)
AskSend == mode = "ask" /\ pc = "Sending" /\ Send("Returned")

\* AskErrorExitZero: a handler that prints the error and returns normally.
AskErrorExitZero ==
    /\ mode = "ask" /\ pc = "Returned" /\ ret.st = "err"
    /\ console' = Append(console, ErrorLine(ret))
    /\ exitcode' = 0
    /\ srv' = NoSrv
    /\ pc' = "Exited"
    /\ UNCHANGED <<mode, history, raw, q, ret, sent, calls, posts, outcomes,
                   failedAt, turns>>

\* except Exception as e: print the error, raise typer.Exit(code=1).
AskError ==
    /\ mode = "ask" /\ pc = "Returned" /\ ret.st = "err"
    /\ console' = Append(console, ErrorLine(ret))
    /\ exitcode' = 1
    /\ srv' = NoSrv
    /\ pc' = "Exited"
    /\ UNCHANGED <<mode, history, raw, q, ret, sent, calls, posts, outcomes,
                   failedAt, turns>>

\* console.print(answer), then the command returns.
AskPrint ==
    /\ mode = "ask" /\ pc = "Returned" /\ ret.st = "ok"
    /\ console' = Append(console, Answer(ret.value))
    /\ exitcode' = 0
    /\ srv' = NoSrv
    /\ pc' = "Exited"
    /\ UNCHANGED <<mode, history, raw, q, ret, sent, calls, posts, outcomes,
                   failedAt, turns>>

Next ==
    \/ ChatPrompt
    \/ ChatSend
    \/ ChatError
    \/ ChatAppend
    \/ ChatRender
    \/ AskSend
    \/ AskError
    \/ AskPrint

Spec == Init /\ [][Next]_vars

-----------------------------------------------------------------------------
\* Vocabulary of the properties, stated apart from the code's own computation.

Last(s) == s[Len(s)]

AllWhitespace(s) == \A i \in 1..Len(s) : s[i] \in Whitespace

\* v is s with its leading and trailing whitespace removed.
IsTrimOf(v, s) ==
    /\ v = << >> \/ (v[1] \notin Whitespace /\ v[Len(v)] \notin Whitespace)
    /\ \E i \in 0..Len(s) : \E j \in i..Len(s) :
         /\ v = SubSeq(s, i + 1, j)
         /\ AllWhitespace(SubSeq(s, 1, i))
         /\ AllWhitespace(SubSeq(s, j + 1, Len(s)))

\* The lines of Inputs that are "exit" or "quit" once trimmed, in any case.
TerminalInputs ==
    { s_exit, <<"E","X","I","T">>, s_quit, <<" "," ","Q","u","i","t"," ">>,
      <<"\t","e","x","i","t">> }

IsTransportError(r) ==
    r.st = "err" /\ r.exc = "RuntimeError" /\ r.msg = "Ollama request failed"
                 /\ r.cause # ""
IsSchemaError(r) ==
    r.st = "err" /\ r.exc = "RuntimeError"
                 /\ r.msg = "Unexpected Ollama response schema"

\* Connection error, timeout or a status outside 200..299.
TransportFailure(s) ==
    s.transport # "ok" \/ ~(200 <= s.status /\ s.status < 300)

\* The body is a JSON object whose "message" holds a sub-field "content".
HasMessageContent(b) ==
    b.t = "obj" /\ b.message.t = "obj" /\ b.message.content.t # "absent"
\* The body is a JSON object with a top-level "response".
HasResponse(b) == b.t = "obj" /\ b.response.t # "absent"

Quiescent == {"AwaitingInput", "Sending", "Ended", "Exited"}
IsRendered(e) == e.kind # "banner"
Rendered == SelectSeq(console, IsRendered)
RenderedKind(o) == IF o = "ok" THEN "answer" ELSE "error"

-----------------------------------------------------------------------------
\* C1: for every 2xx response body (here: every one that is a JSON object) the
\* bridge returns message.content trimmed when "message" holds "content", else
\* the string form of "response" trimmed when "response" is present (also when
\* "message" is there without "content"), else fails with the schema error.
C1_ExtractionPolicy ==
    (pc = "Returned" /\ srv.transport = "ok" /\ srv.status = 200
       /\ srv.body.t = "obj") =>
      IF HasMessageContent(srv.body)
      THEN ret.st = "ok" /\ IsTrimOf(ret.value, pystr(srv.body.message.content))
      ELSE IF HasResponse(srv.body)
      THEN ret.st = "ok" /\ IsTrimOf(ret.value, pystr(srv.body.response))
      ELSE IsSchemaError(ret)

\* C2: a failing bridge call fails with TransportError (every transport
\* failure: connection error, timeout, non-2xx status) or with SchemaError
\* (HTTP succeeded, body of neither shape), and with nothing else.
C2_TwoErrorKinds ==
    pc = "Returned" =>
      /\ ret.st = "err" => (IsTransportError(ret) \/ IsSchemaError(ret))
      /\ TransportFailure(srv) => IsTransportError(ret)
      /\ IsSchemaError(ret) => ~TransportFailure(srv)

\* C3: in chat, a failed bridge call appends no assistant message, leaves the
\* unanswered user message last, returns to awaiting input, and the next
\* non-terminal input is appended right after that user message.
C3_FailedExchange ==
    [][ /\ (mode = "chat" /\ pc = "Returned" /\ ret.st = "err") =>
             /\ history' = history
             /\ Last(history') = Message("user", q)
             /\ pc' = "AwaitingInput"
        /\ (mode = "chat" /\ pc = "AwaitingInput" /\ ret.st = "err"
              /\ pc' = "Sending") =>
             /\ Last(history).role = "user"
             /\ history' = Append(history, Message("user", q'))
      ]_vars

C3_Witness ==
    /\ mode = "chat" /\ pc = "Sending" /\ Len(history) = 3
    /\ history[2].role = "user" /\ history[3].role = "user"
    /\ ret.st = "err"

\* C4: in chat, a line that trims to "exit" or "quit" in any case ends the
\* session: no bridge call for it or after it, the line is not appended, the
\* process ends normally; also after a failed exchange.
C4_ExitEndsSession ==
    [][ /\ (mode = "chat" /\ pc = "AwaitingInput" /\ pc' # pc
              /\ raw' \in TerminalInputs) =>
             /\ pc' = "Ended"
             /\ history' = history
             /\ calls' = calls /\ posts' = posts
             /\ exitcode' = 0
        /\ pc = "Ended" => (pc' = "Ended" /\ calls' = calls /\ posts' = posts)
      ]_vars

C4_Witness ==
    /\ mode = "chat" /\ pc = "Ended" /\ raw = <<" "," ","Q","u","i","t"," ">>
    /\ ret.st = "err" /\ calls = 1 /\ Len(history) = 2

\* C5: ask makes exactly one request, whose message list is (system prompt,
\* user question); it prints the answer and exits 0 on success, prints the
\* error and exits non-zero when the call failed in any way.
C5_SingleShot ==
    mode = "ask" =>
      /\ calls <= 1 /\ posts <= 1
      /\ pc \in {"Returned", "Exited"} =>
           /\ calls = 1 /\ posts = 1
           /\ Len(sent.messages) = 2
           /\ sent.messages = <<Message("system", SYSTEM_PROMPT), Message("user", q)>>
      /\ pc = "Exited" =>
           /\ ret.st \in {"ok", "err"}
           /\ ret.st = "ok"  => (exitcode = 0 /\ console = <<Answer(ret.value)>>)
           /\ ret.st = "err" => (exitcode > 0 /\ console = <<ErrorLine(ret)>>)

C5_Witness ==
    /\ mode = "ask" /\ pc = "Exited" /\ ret.exc = "AttributeError"
    /\ exitcode = 1 /\ q = <<" ","h","i"," ">>

\* C6: in chat the transcript's first element is the system message with the
\* fixed prompt, and it is the only system message, whatever was typed and
\* whichever calls failed.
C6_OneSystemMessage ==
    mode = "chat" =>
      /\ Len(history) >= 1
      /\ history[1] = Message("system", SYSTEM_PROMPT)
      /\ Cardinality({i \in 1..Len(history) : history[i].role = "system"}) = 1

C6_Witness ==
    /\ mode = "chat" /\ pc = "AwaitingInput" /\ Len(history) = 4
    /\ outcomes = <<"err", "ok">>

\* C7 (as claimed): in chat, after the first element the roles strictly
\* alternate user, assistant, user, assistant, ...
C7_StrictAlternation ==
    mode = "chat" =>
      \A i \in 2..Len(history) :
        history[i].role = IF i % 2 = 0 THEN "user" ELSE "assistant"

\* C7 (amended): in chat, after the first element every entry is a user or an
\* assistant message, every assistant message directly follows a user message
\* whose call did not fail, and two adjacent entries have the same role only
\* when both are user messages and the call for the earlier one failed.
C7_AlternationUnlessFailed ==
    mode = "chat" =>
      \A i \in 2..Len(history) :
        /\ history[i].role \in {"user", "assistant"}
        /\ history[i].role = "assistant" =>
             (history[i-1].role = "user" /\ (i - 1) \notin failedAt)
        /\ (history[i].role = "user" /\ i > 2) =>
             \/ history[i-1].role = "assistant"
             \/ (history[i-1].role = "user" /\ (i - 1) \in failedAt)
        /\ (i = 2) => history[i].role = "user"

C7_Witness ==
    /\ mode = "chat" /\ Len(history) = 4
    /\ history[2].role = "user" /\ history[3].role = "user"
    /\ history[4].role = "assistant" /\ failedAt = {2}

\* C8: a bridge call makes exactly one POST, on success and on failure alike,
\* returns at once with its result, and leaves the list it was given as it was.
C8_OnePostNoMutation ==
    [][ /\ pc = "Sending" =>
             /\ calls' = calls + 1
             /\ posts' = posts + 1
             /\ history' = history
             /\ sent'.messages = history
             /\ pc' = "Returned" /\ ret'.st \in {"ok", "err"}
        /\ pc # "Sending" => (posts' = posts /\ calls' = calls)
        /\ posts' = calls'
      ]_vars

C8_Witness ==
    /\ pc = "Returned" /\ ret.cause = "Timeout" /\ calls = 2 /\ posts = 2
    /\ Len(history) = 4

\* C9: in both commands every failed bridge call has its error printed before
\* the next line is read or the process exits, and no answer is printed for it.
C9_ErrorsRendered ==
    /\ pc \in Quiescent =>
         /\ Len(Rendered) = Len(outcomes)
         /\ \A i \in 1..Len(outcomes) : Rendered[i].kind = RenderedKind(outcomes[i])
         /\ ret.st = "err" => Last(Rendered) = ErrorLine(ret)
    /\ pc \notin Quiescent =>
         /\ Len(Rendered) = Len(outcomes) - 1
         /\ \A i \in 1..Len(Rendered) : Rendered[i].kind = RenderedKind(outcomes[i])

C9_Witness ==
    /\ mode = "chat" /\ pc = "AwaitingInput" /\ ret.exc = "JSONDecodeError"
    /\ outcomes = <<"ok", "err">> /\ Len(console) = 3

\* C10: in chat, every line that is not a terminal word once trimmed (the
\* empty line too) is appended, trimmed, as a user message before the call;
\* the call sends the whole transcript ending in that message; on success the
\* answer is appended as the assistant message right after it and then
\* printed; one call is made per such line.
C10_UserThenCallThenAssistant ==
    [][ /\ (mode = "chat" /\ pc = "AwaitingInput" /\ pc' # pc
              /\ raw' \notin TerminalInputs) =>
             /\ pc' = "Sending"
             /\ IsTrimOf(q', raw')
             /\ history' = Append(history, Message("user", q'))
             /\ calls' = calls /\ turns' = turns + 1
        /\ (mode = "chat" /\ pc = "Sending") =>
             /\ Last(history) = Message("user", q)
             /\ sent'.messages = history
             /\ calls' = calls + 1
        /\ (mode = "chat" /\ pc = "Returned" /\ ret.st = "ok") =>
             /\ history' = Append(history, Message("assistant", ret.value))
             /\ console' = console
             /\ pc' = "Displaying"
        /\ (mode = "chat" /\ pc = "Displaying") =>
             /\ Last(history) = Message("assistant", ret.value)
             /\ history' = history
             /\ console' = Append(console, Answer(ret.value))
             /\ calls' = calls
        /\ (mode = "chat" /\ pc' = "AwaitingInput") => calls' = turns'
      ]_vars

C10_Witness ==
    /\ mode = "chat" /\ pc = "AwaitingInput" /\ raw = <<" "," ">> /\ q = << >>
    /\ Len(history) = 3 /\ history[2] = Message("user", << >>)
    /\ history[3].role = "assistant" /\ calls = 1

====
